---- MODULE Spec2Model ----
(***************************************************************************)
(* Model of the go-ejson validation engine (validator.go): the Validator   *)
(* with its cursor (Pointer) and its violation list (Errors), the descent  *)
(* operations Push/Pop/WithChild, the leaf checks, the nested-object       *)
(* checks and the Validate entry point.                                    *)
(*                                                                         *)
(* Go's call stack is explicit: `stack` is the sequence of active          *)
(* function frames (the last element is the running function), each frame  *)
(* with a program counter.  A panic sets `panicking`; the frames are then  *)
(* unwound one by one and only deferred calls run.                         *)
(*                                                                         *)
(* A Validatable value carries its ValidateJSON routine as a `body`: the   *)
(* sequence of Validator calls the routine makes.  Messages are left out   *)
(* of ValidationError: no operation reads them.                            *)
(*                                                                         *)
(* Equal (values.go) is a pure function: SpecEqual draws two JSON values   *)
(* and calls it on them; `equal` holds the arguments and the results.      *)
(***************************************************************************)
EXTENDS Integers, Sequences, FiniteSets, TLC

VARIABLES value, v, stack, ret, panicking, result, last, equal

vars == <<value, v, stack, ret, panicking, result, last, equal>>

(***************************************************************************)
(* Bounds of the generated inputs.                                         *)
(***************************************************************************)
\* longest Bars sequence of a generated TestFoo
MaxBars == 4
\* longest Integers sequence of a generated TestBar
MaxInts == 2
\* longest array of a generated JSON value
MaxArrayLen == 2

(***************************************************************************)
(* Tokens, values and routine calls.                                       *)
(***************************************************************************)
\* a token is an interface{}: a string or an int
StrTok(s) == [t |-> "string", s |-> s, n |-> 0]
IntTok(n) == [t |-> "int", s |-> "", n |-> n]

Digit == <<"0", "1", "2", "3", "4", "5", "6", "7", "8", "9">>

\* strconv.Itoa: the decimal text of an int
RECURSIVE Itoa(_)
Itoa(n) ==
    IF n < 0 THEN "-" \o Itoa(0 - n)
    ELSE IF n < 10 THEN Digit[n + 1]
    ELSE Itoa(n \div 10) \o Digit[(n % 10) + 1]

\* Go values as reflect sees them.  kind is one of
\*   "nil"     the untyped nil interface (reflect.TypeOf = nil)
\*   "int"     an int (neither pointer, string, slice, map nor uuid.UUID)
\*   "string"  a string, text in s
\*   "uuid"    a uuid.UUID, canonical text in s
\*   "ptr_int" a pointer to a non-struct
\*   "nilptr"  a nil pointer to a struct
\*   "struct"  a pointer to a struct that has no ValidateJSON method
\*   "obj"     a pointer to a struct whose ValidateJSON makes the calls of body
\*   "slice"   a slice, elements in elems, element kind in elemKind
\*   "map"     a map, entries in elems as [kind = "entry"] pairs, key kind in keyKind
BaseV ==
    [kind |-> "nil", s |-> "", n |-> 0, elems |-> <<>>, elemKind |-> "",
     keyKind |-> "", key |-> StrTok(""), body |-> <<>>]

NilV == BaseV
IntV(n) == [BaseV EXCEPT !.kind = "int", !.n = n]
StrV(s) == [BaseV EXCEPT !.kind = "string", !.s = s]
UUIDV(s) == [BaseV EXCEPT !.kind = "uuid", !.s = s]
PtrIntV == [BaseV EXCEPT !.kind = "ptr_int"]
NilPtrV == [BaseV EXCEPT !.kind = "nilptr"]
StructV == [BaseV EXCEPT !.kind = "struct"]
ObjV(body) == [BaseV EXCEPT !.kind = "obj", !.body = body]
SliceV(elemKind, elems) ==
    [BaseV EXCEPT !.kind = "slice", !.elemKind = elemKind, !.elems = elems]
\* one map entry: key (a token) and value (kept in elems[1])
EntryV(key, val) == [BaseV EXCEPT !.kind = "entry", !.key = key, !.elems = <<val>>]
MapV(keyKind, entries) ==
    [BaseV EXCEPT !.kind = "map", !.keyKind = keyKind, !.elems = entries]

\* float64: the numbers, integers here, and NaN
Float(n) == [nan |-> FALSE, n |-> n]
NaN == [nan |-> TRUE, n |-> 0]

\* a >= b and a <= b on float64: false when either is NaN
Geq(a, b) == ~a.nan /\ ~b.nan /\ a.n >= b.n
Leq(a, b) == ~a.nan /\ ~b.nan /\ a.n <= b.n

\* one call of a Validator method made by a routine
BaseOp ==
    [op |-> "", token |-> StrTok(""), cond |-> TRUE, code |-> "", i |-> 0,
     min |-> 0, max |-> 0, s |-> "", value |-> BaseV, values |-> BaseV,
     body |-> <<>>, f |-> Float(0), re |-> ""]

Op(name, token) == [BaseOp EXCEPT !.op = name, !.token = token]
OpValue(name, token, val) == [BaseOp EXCEPT !.op = name, !.token = token, !.value = val]

(***************************************************************************)
(* Pointer (pointer.go is not among the sources: Child and Parent follow   *)
(* the specification, 4.1).  A pointer is a sequence of string tokens.     *)
(***************************************************************************)
\* child(Pointer, token): a new pointer with the token appended, an int
\* token in its decimal form
Child(p, token) ==
    Append(p, IF token.t = "int" THEN Itoa(token.n) ELSE token.s)

\* parent(Pointer): the pointer without its last token; the root's parent
\* is the root
Parent(p) ==
    IF Len(p) = 0 THEN p ELSE SubSeq(p, 1, Len(p) - 1)

(***************************************************************************)
(* Validator: the cursor and the violation list.                           *)
(***************************************************************************)
NewValidator == [Pointer |-> <<>>, Errors |-> <<>>]

Push(vv, token) == [vv EXCEPT !.Pointer = Child(vv.Pointer, token)]

\* Pop that leaves the cursor where it is
PopNothing(vv) == vv

Pop(vv) == [vv EXCEPT !.Pointer = Parent(vv.Pointer)]

ValidationError(pointer, code) == [Pointer |-> pointer, Code |-> code]

\* AddError that puts the new violation first
AddErrorFirst(vv, token, code) ==
    [vv EXCEPT !.Errors =
        <<ValidationError(Child(vv.Pointer, token), code)>> \o vv.Errors]

AddError(vv, token, code) ==
    [vv EXCEPT !.Errors =
        Append(vv.Errors, ValidationError(Child(vv.Pointer, token), code))]

\* what a call leaves: the validator, the returned bool, or a panic
Returns(vv, r) == [v |-> vv, ret |-> r, panic |-> FALSE]
Panics(vv) == [v |-> vv, ret |-> FALSE, panic |-> TRUE]

\* Check with its condition inverted
CheckInverted(vv, token, val, code) ==
    Returns(IF val THEN AddError(vv, token, code) ELSE vv, val)

Check(vv, token, val, code) ==
    Returns(IF ~val THEN AddError(vv, token, code) ELSE vv, val)

CheckIntMin(vv, token, i, min) ==
    Check(vv, token, i >= min, "integer_too_small")

CheckIntMax(vv, token, i, max) ==
    Check(vv, token, i <= max, "integer_too_large")

\* CheckIntMinMax that checks the maximum whatever the minimum check said
CheckIntMinMaxBoth(vv, token, i, min, max) ==
    LET r == CheckIntMin(vv, token, i, min)
        r2 == CheckIntMax(r.v, token, i, max)
    IN  Returns(r2.v, r.ret /\ r2.ret)

CheckIntMinMax(vv, token, i, min, max) ==
    LET r == CheckIntMin(vv, token, i, min)
    IN  IF ~r.ret THEN Returns(r.v, FALSE) ELSE CheckIntMax(r.v, token, i, max)

\* the int64 values of the model are far from the ends of int64
CheckInt64Min(vv, token, i, min) ==
    Check(vv, token, i >= min, "integer_too_small")

CheckInt64Max(vv, token, i, max) ==
    Check(vv, token, i <= max, "integer_too_large")

CheckInt64MinMax(vv, token, i, min, max) ==
    LET r == CheckInt64Min(vv, token, i, min)
    IN  IF ~r.ret THEN Returns(r.v, FALSE) ELSE CheckInt64Max(r.v, token, i, max)

CheckFloatMin(vv, token, i, min) ==
    Check(vv, token, Geq(i, min), "float_too_small")

CheckFloatMax(vv, token, i, max) ==
    Check(vv, token, Leq(i, max), "float_too_large")

CheckFloatMinMax(vv, token, i, min, max) ==
    LET r == CheckFloatMin(vv, token, i, min)
    IN  IF ~r.ret THEN Returns(r.v, FALSE) ELSE CheckFloatMax(r.v, token, i, max)

\* utf8.RuneCountInString; the strings of the model are ASCII, one byte a rune
RuneCountInString(s) == Len(s)

CheckStringLengthMin(vv, token, s, min) ==
    Check(vv, token, RuneCountInString(s) >= min, "string_too_short")

CheckStringLengthMax(vv, token, s, max) ==
    Check(vv, token, RuneCountInString(s) <= max, "string_too_long")

CheckStringLengthMinMax(vv, token, s, min, max) ==
    LET r == CheckStringLengthMin(vv, token, s, min)
    IN  IF ~r.ret THEN Returns(r.v, FALSE)
        ELSE CheckStringLengthMax(r.v, token, s, max)

\* re.MatchString(s) for a regular expression that is a literal text: s
\* holds the text
MatchString(re, s) ==
    \E i \in 0..(Len(s) - Len(re)) : SubSeq(s, i + 1, i + Len(re)) = re

CheckStringMatch2(vv, token, s, re, code) ==
    IF ~MatchString(re, s) THEN Returns(AddError(vv, token, code), FALSE)
    ELSE Returns(vv, TRUE)

CheckStringMatch(vv, token, s, re) ==
    CheckStringMatch2(vv, token, s, re, "invalid_string_format")

Letters ==
    {"a", "b", "c", "d", "e", "f", "g", "h", "i", "j", "k", "l", "m", "n", "o",
     "p", "q", "r", "s", "t", "u", "v", "w", "x", "y", "z"}
SchemeMarks == {"0", "1", "2", "3", "4", "5", "6", "7", "8", "9", "+", "-", "."}

\* url.Parse(s), for texts without escapes, control characters, user
\* information or ports: the scheme is the text before the first colon when
\* it is a letter followed by letters, digits, +, - and .; a text that
\* begins with a colon is an error
RECURSIVE getScheme(_, _)
getScheme(s, i) ==
    IF i > Len(s) THEN [err |-> FALSE, Scheme |-> ""]
    ELSE LET c == SubSeq(s, i, i)
         IN  IF c \in Letters THEN getScheme(s, i + 1)
             ELSE IF c \in SchemeMarks
             THEN IF i = 1 THEN [err |-> FALSE, Scheme |-> ""]
                  ELSE getScheme(s, i + 1)
             ELSE IF c = ":"
             THEN IF i = 1 THEN [err |-> TRUE, Scheme |-> ""]
                  ELSE [err |-> FALSE, Scheme |-> SubSeq(s, 1, i - 1)]
             ELSE [err |-> FALSE, Scheme |-> ""]

UrlParse(s) == getScheme(s, 1)

CheckStringURI(vv, token, s) ==
    LET uri == UrlParse(s)
    IN  IF uri.err THEN Returns(AddError(vv, token, "invalid_uri_format"), FALSE)
        ELSE IF uri.Scheme = ""
        THEN Returns(AddError(vv, token, "missing_uri_scheme"), FALSE)
        ELSE Returns(vv, TRUE)

CheckStringNotEmpty(vv, token, s) ==
    Check(vv, token, s # "", "missing_or_empty_string")

\* reflect.TypeOf(nil) is nil and its Kind() a nil dereference: a panic too
CheckStringValue(vv, token, val, values) ==
    IF val.kind # "string" THEN Panics(vv)
    ELSE IF values.kind # "slice" THEN Panics(vv)
    ELSE IF values.elemKind # "string" THEN Panics(vv)
    ELSE LET found == \E i \in 1..Len(values.elems) : values.elems[i].s = val.s
         IN  Returns(IF ~found THEN AddError(vv, token, "invalid_value") ELSE vv,
                     found)

\* go.n16f.net/uuid: the zero UUID, and the texts UUID.Parse accepts
NilUUID == "00000000-0000-0000-0000-000000000000"
SomeUUID == "6ba7b810-9dad-11d1-80b4-00c04fd430c8"
ParsesAsUUID(s) == s \in {NilUUID, SomeUUID}

\* the switch on the value's type has no default case: a value that is
\* neither a string nor a uuid.UUID leaves id at its zero value
CheckUUID(vv, token, val) ==
    IF val.kind = "string" THEN
        LET r1 == CheckStringNotEmpty(vv, token, val.s)
        IN  IF ~r1.ret THEN Returns(r1.v, FALSE)
            ELSE LET r2 == Check(r1.v, token, ParsesAsUUID(val.s), "invalid_uuid")
                 IN  IF ~r2.ret THEN Returns(r2.v, FALSE)
                     ELSE Check(r2.v, token, val.s # NilUUID, "missing_or_null_uuid")
    ELSE IF val.kind = "uuid" THEN
        Check(vv, token, val.s # NilUUID, "missing_or_null_uuid")
    ELSE Check(vv, token, NilUUID # NilUUID, "missing_or_null_uuid")

\* checkArray: the length of a slice or array, a panic for anything else
checkArray(val) ==
    IF val.kind = "slice" THEN [panic |-> FALSE, length |-> Len(val.elems)]
    ELSE [panic |-> TRUE, length |-> 0]

CheckArrayLengthMin(vv, token, val, min) ==
    LET a == checkArray(val)
    IN  IF a.panic THEN Panics(vv)
        ELSE Check(vv, token, a.length >= min, "array_too_small")

CheckArrayLengthMax(vv, token, val, max) ==
    LET a == checkArray(val)
    IN  IF a.panic THEN Panics(vv)
        ELSE Check(vv, token, a.length <= max, "array_too_large")

CheckArrayLengthMinMax(vv, token, val, min, max) ==
    LET r == CheckArrayLengthMin(vv, token, val, min)
    IN  IF r.panic THEN r
        ELSE IF ~r.ret THEN Returns(r.v, FALSE)
        ELSE CheckArrayLengthMax(r.v, token, val, max)

CheckArrayNotEmpty(vv, token, val) ==
    LET a == checkArray(val)
    IN  IF a.panic THEN Panics(vv)
        ELSE Check(vv, token, a.length > 0, "empty_array")

\* checkObject: false for nil (untyped, or a nil pointer to a struct), a
\* panic for what is no pointer to a struct, true for a non-nil pointer
checkObject(val) ==
    IF val.kind = "nil" THEN [panic |-> FALSE, ret |-> FALSE]
    ELSE IF val.kind \notin {"ptr_int", "nilptr", "struct", "obj"}
        THEN [panic |-> TRUE, ret |-> FALSE]
    ELSE IF val.kind = "ptr_int" THEN [panic |-> TRUE, ret |-> FALSE]
    ELSE [panic |-> FALSE, ret |-> val.kind # "nilptr"]

\* value.(Validatable): the value has a ValidateJSON method
IsValidatable(val) == val.kind = "obj"

(***************************************************************************)
(* The call stack.  A frame is one active call: fn its function, pc the    *)
(* place it resumes at, the arguments and locals it uses; entry is the     *)
(* validator as it was when the call was made (history, read by no         *)
(* action).  `last` records what the last step did and to which frame.     *)
(***************************************************************************)
BaseF ==
    [fn |-> "", pc |-> "start", op |-> BaseOp, token |-> StrTok(""),
     value |-> BaseV, body |-> <<>>, closure |-> "", i |-> 0, ok |-> TRUE,
     nbErrors |-> 0, rest |-> {}, entry |-> NewValidator]

\* the frame of a call op made while the validator is vv
CallFrame(op, vv) ==
    [BaseF EXCEPT !.fn = op.op, !.op = op, !.token = op.token,
                  !.value = op.value, !.body = op.body, !.entry = vv,
                  !.closure = IF op.op = "WithChild" THEN "func" ELSE ""]

\* the frame of a function running body: a ValidateJSON method or the
\* closure given to WithChild
RoutineFrame(fn, body, vv) ==
    [BaseF EXCEPT !.fn = fn, !.body = body, !.entry = vv]

Top == stack[Len(stack)]
Callers == SubSeq(stack, 1, Len(stack) - 1)
SetTop(f) == [stack EXCEPT ![Len(stack)] = f]

Running == ~panicking /\ stack # <<>>
At(fn, pc) == Running /\ Top.fn = fn /\ Top.pc = pc

Event(how, f) == [how |-> how, f |-> f]

\* the running function returns r
Return(r) ==
    /\ stack' = Callers
    /\ ret' = r
    /\ last' = Event("return", Top)
    /\ UNCHANGED <<equal, value, panicking, result>>

\* the running function calls f and resumes at pc
Call(pc, f) ==
    /\ stack' = Append(SetTop([Top EXCEPT !.pc = pc]), f)
    /\ last' = Event("call", Top)
    /\ UNCHANGED <<equal, value, ret, panicking, result>>

\* the running function panics
Panic ==
    /\ panicking' = TRUE
    /\ last' = Event("panic", Top)
    /\ UNCHANGED <<equal, value, stack, ret, result>>

\* a call that runs to its end in one step, leaving r
Leaf(r) ==
    /\ v' = r.v
    /\ IF r.panic THEN Panic ELSE Return(r.ret)

(***************************************************************************)
(* Validate and the routines.                                              *)
(***************************************************************************)
Validate ==
    /\ At("Validate", "start")
    /\ v' = NewValidator
    /\ IF IsValidatable(Top.value)
       THEN Call("check", RoutineFrame("ValidateJSON", Top.value.body, NewValidator))
       ELSE /\ stack' = SetTop([Top EXCEPT !.pc = "check"])
            /\ last' = Event("step", Top)
            /\ UNCHANGED <<equal, value, ret, panicking, result>>

\* Validator.Error, as Validate uses it
Error(vv) ==
    IF Len(vv.Errors) = 0 THEN [kind |-> "nil", errors |-> <<>>]
    ELSE [kind |-> "error", errors |-> vv.Errors]

\* Validate that returns the list as the error whatever its length
ValidateReturnsTheList ==
    /\ At("Validate", "check")
    /\ result' = [kind |-> "error", errors |-> v.Errors]
    /\ stack' = Callers
    /\ last' = Event("return", Top)
    /\ UNCHANGED <<equal, value, v, ret, panicking>>

ValidateReturn ==
    /\ At("Validate", "check")
    /\ result' = IF Len(v.Errors) > 0 THEN Error(v)
                 ELSE [kind |-> "nil", errors |-> <<>>]
    /\ stack' = Callers
    /\ last' = Event("return", Top)
    /\ UNCHANGED <<equal, value, v, ret, panicking>>

IsRoutine(f) == f.fn \in {"ValidateJSON", "func"}

\* a routine makes its next call
ValidateJSON ==
    /\ Running /\ IsRoutine(Top)
    /\ Top.i < Len(Top.body)
    /\ stack' = Append(SetTop([Top EXCEPT !.i = @ + 1]),
                       CallFrame(Top.body[Top.i + 1], v))
    /\ last' = Event("call", Top)
    /\ UNCHANGED <<equal, value, v, ret, panicking, result>>

\* a routine has made all its calls
ValidateJSONReturn ==
    /\ Running /\ IsRoutine(Top)
    /\ Top.i = Len(Top.body)
    /\ Return(ret)
    /\ UNCHANGED v

(***************************************************************************)
(* Leaf checks.                                                            *)
(***************************************************************************)
CallAddError ==
    /\ At("AddError", "start")
    /\ Leaf(Returns(AddError(v, Top.token, Top.op.code), ret))

CallCheck ==
    /\ At("Check", "start")
    /\ Leaf(Check(v, Top.token, Top.op.cond, Top.op.code))

CallCheckIntMin ==
    /\ At("CheckIntMin", "start")
    /\ Leaf(CheckIntMin(v, Top.token, Top.op.i, Top.op.min))

CallCheckIntMax ==
    /\ At("CheckIntMax", "start")
    /\ Leaf(CheckIntMax(v, Top.token, Top.op.i, Top.op.max))

CallCheckIntMinMax ==
    /\ At("CheckIntMinMax", "start")
    /\ Leaf(CheckIntMinMax(v, Top.token, Top.op.i, Top.op.min, Top.op.max))

CallCheckInt64Min ==
    /\ At("CheckInt64Min", "start")
    /\ Leaf(CheckInt64Min(v, Top.token, Top.op.i, Top.op.min))

CallCheckInt64Max ==
    /\ At("CheckInt64Max", "start")
    /\ Leaf(CheckInt64Max(v, Top.token, Top.op.i, Top.op.max))

CallCheckInt64MinMax ==
    /\ At("CheckInt64MinMax", "start")
    /\ Leaf(CheckInt64MinMax(v, Top.token, Top.op.i, Top.op.min, Top.op.max))

CallCheckFloatMin ==
    /\ At("CheckFloatMin", "start")
    /\ Leaf(CheckFloatMin(v, Top.token, Top.op.f, Float(Top.op.min)))

CallCheckFloatMax ==
    /\ At("CheckFloatMax", "start")
    /\ Leaf(CheckFloatMax(v, Top.token, Top.op.f, Float(Top.op.max)))

CallCheckFloatMinMax ==
    /\ At("CheckFloatMinMax", "start")
    /\ Leaf(CheckFloatMinMax(v, Top.token, Top.op.f, Float(Top.op.min),
                             Float(Top.op.max)))

CallCheckStringMatch ==
    /\ At("CheckStringMatch", "start")
    /\ Leaf(CheckStringMatch(v, Top.token, Top.op.s, Top.op.re))

CallCheckStringMatch2 ==
    /\ At("CheckStringMatch2", "start")
    /\ Leaf(CheckStringMatch2(v, Top.token, Top.op.s, Top.op.re, Top.op.code))

CallCheckStringURI ==
    /\ At("CheckStringURI", "start")
    /\ Leaf(CheckStringURI(v, Top.token, Top.op.s))

CallCheckStringLengthMin ==
    /\ At("CheckStringLengthMin", "start")
    /\ Leaf(CheckStringLengthMin(v, Top.token, Top.op.s, Top.op.min))

CallCheckStringLengthMax ==
    /\ At("CheckStringLengthMax", "start")
    /\ Leaf(CheckStringLengthMax(v, Top.token, Top.op.s, Top.op.max))

CallCheckStringLengthMinMax ==
    /\ At("CheckStringLengthMinMax", "start")
    /\ Leaf(CheckStringLengthMinMax(v, Top.token, Top.op.s, Top.op.min, Top.op.max))

CallCheckStringNotEmpty ==
    /\ At("CheckStringNotEmpty", "start")
    /\ Leaf(CheckStringNotEmpty(v, Top.token, Top.op.s))

CallCheckStringValue ==
    /\ At("CheckStringValue", "start")
    /\ Leaf(CheckStringValue(v, Top.token, Top.value, Top.op.values))

CallCheckUUID ==
    /\ At("CheckUUID", "start")
    /\ Leaf(CheckUUID(v, Top.token, Top.value))

CallCheckArrayLengthMin ==
    /\ At("CheckArrayLengthMin", "start")
    /\ Leaf(CheckArrayLengthMin(v, Top.token, Top.value, Top.op.min))

CallCheckArrayLengthMax ==
    /\ At("CheckArrayLengthMax", "start")
    /\ Leaf(CheckArrayLengthMax(v, Top.token, Top.value, Top.op.max))

CallCheckArrayLengthMinMax ==
    /\ At("CheckArrayLengthMinMax", "start")
    /\ Leaf(CheckArrayLengthMinMax(v, Top.token, Top.value, Top.op.min, Top.op.max))

CallCheckArrayNotEmpty ==
    /\ At("CheckArrayNotEmpty", "start")
    /\ Leaf(CheckArrayNotEmpty(v, Top.token, Top.value))

(***************************************************************************)
(* Descent: WithChild and the nested-object checks.                        *)
(***************************************************************************)
\* the frame of the closure a WithChild frame f runs, entered with vv
ClosureFrame(f, vv) ==
    [BaseF EXCEPT !.fn = f.closure, !.body = f.body, !.value = f.value,
                  !.rest = IF f.closure = "CheckObjectMap.func1"
                           THEN 1..Len(f.value.elems) ELSE {},
                  !.entry = vv]

\* v.Push(token); defer v.Pop(); fn()
WithChild ==
    /\ At("WithChild", "start")
    /\ v' = Push(v, Top.token)
    /\ Call("defer", ClosureFrame(Top, Push(v, Top.token)))

\* fn has returned: the deferred v.Pop() runs
WithChildReturn ==
    /\ At("WithChild", "defer")
    /\ v' = Pop(v)
    /\ Return(ret)

\* CheckOptionalObject that treats nil as CheckObject does
CheckOptionalObjectAsRequired ==
    /\ At("CheckOptionalObject", "start")
    /\ LET c == checkObject(Top.value)
       IN  IF c.panic THEN Panic /\ UNCHANGED v
           ELSE IF ~c.ret
           THEN /\ v' = AddError(v, Top.token, "missing_or_null_value")
                /\ Return(FALSE)
           ELSE /\ Call("ret", CallFrame(OpValue("doCheckObject", Top.token, Top.value), v))
                /\ UNCHANGED v

CheckOptionalObject ==
    /\ At("CheckOptionalObject", "start")
    /\ LET c == checkObject(Top.value)
       IN  IF c.panic THEN Panic /\ UNCHANGED v
           ELSE IF ~c.ret THEN Return(TRUE) /\ UNCHANGED v
           ELSE /\ Call("ret", CallFrame(OpValue("doCheckObject", Top.token, Top.value), v))
                /\ UNCHANGED v

CheckObject ==
    /\ At("CheckObject", "start")
    /\ LET c == checkObject(Top.value)
       IN  IF c.panic THEN Panic /\ UNCHANGED v
           ELSE IF ~c.ret
           THEN /\ v' = AddError(v, Top.token, "missing_or_null_value")
                /\ Return(FALSE)
           ELSE /\ Call("ret", CallFrame(OpValue("doCheckObject", Top.token, Top.value), v))
                /\ UNCHANGED v

\* return v.doCheckObject(token, value)
CheckObjectReturn ==
    /\ Running /\ Top.fn \in {"CheckObject", "CheckOptionalObject"}
    /\ Top.pc = "ret"
    /\ Return(ret)
    /\ UNCHANGED v

doCheckObject ==
    /\ At("doCheckObject", "start")
    /\ IF ~IsValidatable(Top.value) THEN Return(TRUE) /\ UNCHANGED v
       ELSE /\ v' = Push(v, Top.token)
            /\ stack' = Append(SetTop([Top EXCEPT !.pc = "pop",
                                                  !.nbErrors = Len(v.Errors)]),
                               RoutineFrame("ValidateJSON", Top.value.body,
                                            Push(v, Top.token)))
            /\ last' = Event("call", Top)
            /\ UNCHANGED <<equal, value, ret, panicking, result>>

\* value2.ValidateJSON(v) has returned: v.Pop() and the comparison
doCheckObjectPop ==
    /\ At("doCheckObject", "pop")
    /\ v' = Pop(v)
    /\ Return(Len(v.Errors) = Top.nbErrors)

\* the frame of the WithChild call a collection check makes
CollectionWithChild(closure, vv) ==
    [BaseF EXCEPT !.fn = "WithChild", !.token = Top.token, !.value = Top.value,
                  !.closure = closure, !.entry = vv]

CheckObjectArray ==
    /\ At("CheckObjectArray", "start")
    /\ UNCHANGED v
    /\ IF Top.value.kind # "slice" THEN Panic
       ELSE /\ stack' = Append(SetTop([Top EXCEPT !.pc = "ret", !.ok = TRUE]),
                               CollectionWithChild("CheckObjectArray.func1", v))
            /\ last' = Event("call", Top)
            /\ UNCHANGED <<equal, value, ret, panicking, result>>

\* the loop of CheckObjectArray, left at the first element that fails
CheckObjectArrayLoopFailFast ==
    /\ At("CheckObjectArray.func1", "start")
    /\ UNCHANGED v
    /\ IF Top.i < Len(Top.value.elems) /\ stack[Len(stack) - 2].ok
       THEN Call("assign",
                 CallFrame(OpValue("CheckObject", StrTok(Itoa(Top.i)),
                                   Top.value.elems[Top.i + 1]), v))
       ELSE Return(ret)

\* for i := 0; i < values.Len(); i++ { childOk := v.CheckObject(Itoa(i), child)
CheckObjectArrayLoop ==
    /\ At("CheckObjectArray.func1", "start")
    /\ UNCHANGED v
    /\ IF Top.i < Len(Top.value.elems)
       THEN Call("assign",
                 CallFrame(OpValue("CheckObject", StrTok(Itoa(Top.i)),
                                   Top.value.elems[Top.i + 1]), v))
       ELSE Return(ret)

\* ok = ok && childOk, in the frame of the function that made the closure
\* (two frames down: the closure, WithChild, then that function)
AssignOk ==
    /\ stack' = [stack EXCEPT
                   ![Len(stack)] = [@ EXCEPT !.pc = "start", !.i = @ + 1],
                   ![Len(stack) - 2] = [@ EXCEPT !.ok = @ /\ ret]]
    /\ last' = Event("step", Top)
    /\ UNCHANGED <<equal, value, v, ret, panicking, result>>

CheckObjectArrayAssign ==
    /\ At("CheckObjectArray.func1", "assign")
    /\ AssignOk

CheckObjectArrayReturn ==
    /\ At("CheckObjectArray", "ret")
    /\ Return(Top.ok)
    /\ UNCHANGED v

CheckObjectMap ==
    /\ At("CheckObjectMap", "start")
    /\ UNCHANGED v
    /\ IF Top.value.kind # "map" THEN Panic
       ELSE /\ stack' = Append(SetTop([Top EXCEPT !.pc = "ret", !.ok = TRUE]),
                               CollectionWithChild("CheckObjectMap.func1", v))
            /\ last' = Event("call", Top)
            /\ UNCHANGED <<equal, value, ret, panicking, result>>

\* the loop of CheckObjectMap, left at the first entry that fails
CheckObjectMapLoopFailFast ==
    /\ At("CheckObjectMap.func1", "start")
    /\ UNCHANGED v
    /\ IF Top.rest = {} \/ ~stack[Len(stack) - 2].ok THEN Return(ret)
       ELSE \E k \in Top.rest :
              IF Top.value.keyKind # "string" THEN Panic
              ELSE /\ stack' =
                        Append(SetTop([Top EXCEPT !.pc = "assign", !.rest = @ \ {k}]),
                               CallFrame(OpValue("CheckObject",
                                                 StrTok(Top.value.elems[k].key.s),
                                                 Top.value.elems[k].elems[1]), v))
                   /\ last' = Event("call", Top)
                   /\ UNCHANGED <<equal, value, ret, panicking, result>>

\* for iter.Next() { ... }: the entries that are left come in any order
CheckObjectMapLoop ==
    /\ At("CheckObjectMap.func1", "start")
    /\ UNCHANGED v
    /\ IF Top.rest = {} THEN Return(ret)
       ELSE \E k \in Top.rest :
              IF Top.value.keyKind # "string" THEN Panic
              ELSE /\ stack' =
                        Append(SetTop([Top EXCEPT !.pc = "assign", !.rest = @ \ {k}]),
                               CallFrame(OpValue("CheckObject",
                                                 StrTok(Top.value.elems[k].key.s),
                                                 Top.value.elems[k].elems[1]), v))
                   /\ last' = Event("call", Top)
                   /\ UNCHANGED <<equal, value, ret, panicking, result>>

CheckObjectMapAssign ==
    /\ At("CheckObjectMap.func1", "assign")
    /\ AssignOk

CheckObjectMapReturn ==
    /\ At("CheckObjectMap", "ret")
    /\ Return(Top.ok)
    /\ UNCHANGED v

(***************************************************************************)
(* A panic unwinds the stack: each frame is left in turn, and of the       *)
(* code only the deferred calls run.                                       *)
(***************************************************************************)
Unwound ==
    /\ stack' = Callers
    /\ last' = Event("unwind", Top)
    /\ result' = IF Len(stack) = 1 THEN [kind |-> "panic", errors |-> <<>>]
                 ELSE result
    /\ UNCHANGED <<equal, value, ret, panicking>>

\* WithChild's deferred v.Pop()
UnwindWithChild ==
    /\ panicking /\ stack # <<>>
    /\ Top.fn = "WithChild" /\ Top.pc = "defer"
    /\ v' = Pop(v)
    /\ Unwound

Unwind ==
    /\ panicking /\ stack # <<>>
    /\ ~(Top.fn = "WithChild" /\ Top.pc = "defer")
    /\ UNCHANGED v
    /\ Unwound

(***************************************************************************)
(* The values given to Validate: the test types TestFoo and TestBar with   *)
(* fields drawn from bounded sets, the test's own data, and routines that  *)
(* make each call of the API on well-shaped and on wrong-shaped values,    *)
(* at the root and below each kind of descent.                             *)
(***************************************************************************)
SeqsUpTo(S, n) == UNION {[1..k -> S] : k \in 0..n}

\* calls, as the routines write them
WithChildOp(token, body) == [Op("WithChild", token) EXCEPT !.body = body]
CheckOp(token, cond, code) == [Op("Check", token) EXCEPT !.cond = cond, !.code = code]
AddErrorOp(token, code) == [Op("AddError", token) EXCEPT !.code = code]
IntOp(name, token, i, min, max) ==
    [Op(name, token) EXCEPT !.i = i, !.min = min, !.max = max]
StringOp(name, token, s, min, max) ==
    [Op(name, token) EXCEPT !.s = s, !.min = min, !.max = max]
ArrayOp(name, token, val, min, max) ==
    [OpValue(name, token, val) EXCEPT !.min = min, !.max = max]
FloatOp(name, token, f, min, max) ==
    [Op(name, token) EXCEPT !.f = f, !.min = min, !.max = max]
MatchOp(name, token, s, re, code) ==
    [Op(name, token) EXCEPT !.s = s, !.re = re, !.code = code]
StringValueOp(token, val, values) ==
    [OpValue("CheckStringValue", token, val) EXCEPT !.values = values]

Strings(ss) == SliceV("string", [i \in 1..Len(ss) |-> StrV(ss[i])])

\* func (bar *TestBar) ValidateJSON
TestBar(Integers) ==
    ObjV(<<WithChildOp(StrTok("Integers"),
             [i \in 1..Len(Integers) |->
                 IntOp("CheckIntMax", IntTok(i - 1), Integers[i], 0, 10)])>>)

\* func (foo *TestFoo) ValidateJSON
TestFoo(String, Bar, Bars, BarTable, Tag) ==
    ObjV(<<StringOp("CheckStringLengthMin", StrTok("String"), String, 3, 0),
           OpValue("CheckOptionalObject", StrTok("Bar"), Bar),
           OpValue("CheckObjectArray", StrTok("Bars"), SliceV("ptr", Bars)),
           OpValue("CheckObjectMap", StrTok("BarTable"), MapV("string", BarTable)),
           StringValueOp(StrTok("Tag"), StrV(Tag), Strings(<<"", "a", "b", "c">>))>>)

Entry(k, val) == EntryV(StrTok(k), val)

IntegerValues == {5, 15}
TestBars == {TestBar(ints) : ints \in SeqsUpTo(IntegerValues, MaxInts)}
Elements == {NilPtrV, TestBar(<<5>>), TestBar(<<15>>)}
Keys == <<"foo", "bar", "baz">>

\* the maps with keys among Keys and values among Elements
BarTables ==
    {LET present == SelectSeq(<<1, 2, 3>>, LAMBDA k : f[k] # NilV)
     IN  [j \in 1..Len(present) |-> Entry(Keys[present[j]], f[present[j]])]
     : f \in [1..3 -> Elements \cup {NilV}]}

FooInputs ==
    {TestFoo(s, b, <<>>, <<>>, tag) :
        s \in {"ab", "abcdef"}, b \in TestBars \cup {NilPtrV}, tag \in {"", "xyz"}}
    \cup {TestFoo("abcdef", NilPtrV, bars, <<>>, "") : bars \in SeqsUpTo(Elements, MaxBars)}
    \cup {TestFoo("abcdef", NilPtrV, <<>>, table, "") : table \in BarTables}

\* TestValidate: null objects in an object array
NullObjectsData ==
    TestFoo("abcdef", NilPtrV,
            <<TestBar(<<4>>), NilPtrV, TestBar(<<5, 6>>), NilPtrV>>, <<>>, "")

\* TestValidate: nested violations
NestedViolationsData ==
    TestFoo("abcdef", NilPtrV,
            <<NilPtrV, TestBar(<<15>>), TestBar(<<5, 20>>)>>,
            <<Entry("foo", TestBar(<<15>>))>>, "")

\* the data of TestValidate
TestInputs ==
    {TestFoo("abcdef", TestBar(<<1, 2, 3>>),
             <<TestBar(<<4>>), TestBar(<<5, 6>>)>>,
             <<Entry("foo", TestBar(<<4>>)), Entry("bar", TestBar(<<5, 6>>))>>, ""),
     TestFoo("abcdef", NilPtrV, <<>>, <<>>, ""),
     TestFoo("ab", NilPtrV, <<>>, <<>>, ""),
     TestFoo("abcdef", NilPtrV, <<>>, <<>>, "xyz"),
     NullObjectsData,
     NestedViolationsData}

T == StrTok("t")

Shapes ==
    {NilV, IntV(42), StrV("a"), PtrIntV, NilPtrV, StructV, TestBar(<<15>>),
     SliceV("ptr", <<>>), SliceV("ptr", <<NilPtrV, TestBar(<<5>>)>>),
     SliceV("int", <<IntV(1)>>), SliceV("interface", <<NilV, IntV(1)>>),
     MapV("string", <<Entry("foo", NilPtrV)>>), MapV("int", <<>>),
     MapV("int", <<EntryV(IntTok(1), TestBar(<<15>>))>>),
     MapV("interface", <<Entry("foo", NilPtrV)>>)}

LeafOps ==
    {CheckOp(T, c, "custom") : c \in BOOLEAN}
    \cup {AddErrorOp(T, "custom")}
    \cup {IntOp(name, T, i, 3, 10) :
            name \in {"CheckIntMin", "CheckIntMax", "CheckIntMinMax",
                      "CheckInt64Min", "CheckInt64Max", "CheckInt64MinMax"},
            i \in {1, 5, 15}}
    \cup {FloatOp(name, T, f, 3, 10) :
            name \in {"CheckFloatMin", "CheckFloatMax", "CheckFloatMinMax"},
            f \in {Float(1), Float(5), Float(15), NaN}}
    \* a minimum above the maximum: the value is below the one, above the other
    \cup {IntOp(name, T, 5, 10, 3) : name \in {"CheckIntMinMax", "CheckInt64MinMax"}}
    \cup {FloatOp("CheckFloatMinMax", T, Float(5), 10, 3),
          StringOp("CheckStringLengthMinMax", T, "ab", 4, 1),
          ArrayOp("CheckArrayLengthMinMax", T, SliceV("int", <<IntV(1)>>), 2, 0)}
    \cup {MatchOp("CheckStringMatch", T, s, re, "") :
            s \in {"", "abc", "xbx"}, re \in {"", "b", "ab"}}
    \cup {MatchOp("CheckStringMatch2", T, s, re, "custom_format") :
            s \in {"", "abc", "xbx"}, re \in {"", "b", "ab"}}
    \cup {StringOp("CheckStringURI", T, s, 0, 0) :
            s \in {"http://a", "a/b", ":a", "", "1a:b", "a+1:b"}}
    \cup {StringOp(name, T, s, 3, 4) :
            name \in {"CheckStringLengthMin", "CheckStringLengthMax",
                      "CheckStringLengthMinMax", "CheckStringNotEmpty"},
            s \in {"", "ab", "abcd", "abcdef"}}
    \cup {StringValueOp(T, val, values) :
            val \in {StrV("a"), StrV("xyz"), IntV(42), NilV},
            values \in {Strings(<<"", "a">>), IntV(42), SliceV("int", <<IntV(1)>>)}}
    \cup {OpValue("CheckUUID", T, val) :
            val \in {StrV(""), StrV("nope"), StrV(NilUUID), StrV(SomeUUID),
                     UUIDV(NilUUID), UUIDV(SomeUUID), IntV(42), NilV}}
    \cup {ArrayOp(name, T, val, 1, 2) :
            name \in {"CheckArrayLengthMin", "CheckArrayLengthMax",
                      "CheckArrayLengthMinMax", "CheckArrayNotEmpty"},
            val \in {SliceV("int", <<>>), SliceV("int", <<IntV(1)>>),
                     SliceV("int", <<IntV(1), IntV(2), IntV(3)>>),
                     IntV(42), NilV, StrV("a")}}

ObjectOps ==
    {OpValue(name, T, val) :
        name \in {"CheckObject", "CheckOptionalObject", "CheckObjectArray",
                  "CheckObjectMap"},
        val \in Shapes}

Failing == CheckOp(StrTok("after"), FALSE, "custom")

\* a call at the root, and below each kind of descent
Contexts(op) ==
    {ObjV(<<op, Failing>>),
     ObjV(<<OpValue("CheckObject", StrTok("Bar"), ObjV(<<op>>)), Failing>>),
     ObjV(<<OpValue("CheckObjectArray", StrTok("Bars"),
                    SliceV("ptr", <<NilPtrV, ObjV(<<op>>), TestBar(<<15>>)>>))>>),
     ObjV(<<OpValue("CheckObjectMap", StrTok("BarTable"),
                    MapV("string", <<Entry("foo", ObjV(<<op>>)),
                                     Entry("bar", NilPtrV)>>))>>),
     ObjV(<<WithChildOp(StrTok("W"),
              <<Failing, WithChildOp(StrTok("X"), <<op>>), Failing>>)>>)}

ApiInputs == UNION {Contexts(op) : op \in LeafOps \cup ObjectOps}

\* values that have no ValidateJSON method
PlainInputs == {StructV, IntV(42), NilV, StrV("a"), SliceV("int", <<IntV(1)>>)}

Inputs == FooInputs \cup TestInputs \cup ApiInputs \cup PlainInputs

(***************************************************************************)
(* values.go: the generic JSON values (nil, bool, float64, string,         *)
(* []interface{}, map[string]interface{}) and Equal.  An object lists its  *)
(* members, keys unique, in some order; a Go map has none, so every        *)
(* listing of the same members is the same object to the code.             *)
(***************************************************************************)
BaseJ == [tag |-> "null", b |-> FALSE, n |-> 0, s |-> "", elems |-> <<>>,
          members |-> <<>>]

Null == BaseJ
Bool(b) == [BaseJ EXCEPT !.tag = "bool", !.b = b]
Number(n) == [BaseJ EXCEPT !.tag = "number", !.n = n]
String(s) == [BaseJ EXCEPT !.tag = "string", !.s = s]
Array(elems) == [BaseJ EXCEPT !.tag = "array", !.elems = elems]
Object(members) == [BaseJ EXCEPT !.tag = "object", !.members = members]
Member(key, val) == [key |-> key, val |-> val]

IsNumber(x) == x.tag = "number"
IsString(x) == x.tag = "string"
IsBoolean(x) == x.tag = "bool"
IsArray(x) == x.tag = "array"
IsObject(x) == x.tag = "object"

\* value, found := obj[key]
Found(obj, key) == \E i \in 1..Len(obj.members) : obj.members[i].key = key
Lookup(obj, key) ==
    obj.members[CHOOSE i \in 1..Len(obj.members) : obj.members[i].key = key].val

\* func Equal(v1, v2 interface{}) bool: a switch with a case for numbers,
\* strings, booleans, arrays and objects, and false after it
RECURSIVE Equal(_, _)
Equal(x1, x2) ==
    IF IsNumber(x1) /\ IsNumber(x2) THEN x1.n = x2.n
    ELSE IF IsString(x1) /\ IsString(x2) THEN x1.s = x2.s
    ELSE IF IsBoolean(x1) /\ IsBoolean(x2) THEN x1.b = x2.b
    ELSE IF IsArray(x1) /\ IsArray(x2) THEN
        IF Len(x1.elems) # Len(x2.elems) THEN FALSE
        ELSE \A i \in 1..Len(x1.elems) : Equal(x1.elems[i], x2.elems[i])
    ELSE IF IsObject(x1) /\ IsObject(x2) THEN
        /\ \A i \in 1..Len(x1.members) :
              /\ Found(x2, x1.members[i].key)
              /\ Equal(x1.members[i].val, Lookup(x2, x1.members[i].key))
        /\ \A i \in 1..Len(x2.members) :
              /\ Found(x1, x2.members[i].key)
              /\ Equal(Lookup(x1, x2.members[i].key), x2.members[i].val)
    ELSE FALSE

\* the JSON values Equal is called on: scalars, arrays and objects of
\* scalars, and arrays and objects that hold arrays and objects
Scalars == {Null, Bool(TRUE), Bool(FALSE), Number(1), Number(2), String("a")}
Inner == {Null, Number(1), String("a")}
ObjectsOver(S) ==
    {Object(<<>>)}
    \cup {Object(<<Member(k, x)>>) : k \in {"a", "b"}, x \in S}
    \cup {Object(<<Member("a", x), Member("b", y)>>) : x \in S, y \in S}
    \cup {Object(<<Member("b", y), Member("a", x)>>) : x \in S, y \in S}
Nested == {Null, Number(1), Array(<<Null>>), Array(<<Number(1)>>),
           Object(<<Member("a", Null)>>)}
Values ==
    Scalars
    \cup {Array(e) : e \in SeqsUpTo(Inner, MaxArrayLen)}
    \cup ObjectsOver(Inner)
    \cup {Array(e) : e \in SeqsUpTo(Nested, MaxArrayLen)}
    \cup {Object(<<Member("a", x)>>) : x \in Nested}

\* no call of Equal
NoEqual == [v1 |-> Null, v2 |-> Null, done |-> FALSE, ret |-> FALSE, back |-> FALSE]

\* Equal(v1, v2) and Equal(v2, v1)
CallEqual ==
    /\ ~equal.done
    /\ equal' = [equal EXCEPT !.done = TRUE,
                              !.ret = Equal(equal.v1, equal.v2),
                              !.back = Equal(equal.v2, equal.v1)]
    /\ UNCHANGED <<value, v, stack, ret, panicking, result, last>>

InitEqual ==
    /\ equal \in {[NoEqual EXCEPT !.v1 = x1, !.v2 = x2] : x1 \in Values, x2 \in Values}
    /\ value = NilV
    /\ v = NewValidator
    /\ stack = <<>>
    /\ ret = TRUE
    /\ panicking = FALSE
    /\ result = [kind |-> "none", errors |-> <<>>]
    /\ last = Event("none", BaseF)

NextEqual == CallEqual

SpecEqual == InitEqual /\ [][NextEqual]_vars

(***************************************************************************)
(* The program: one call of Validate(value).                               *)
(***************************************************************************)
Init ==
    /\ value \in Inputs
    /\ v = NewValidator
    /\ stack = <<[BaseF EXCEPT !.fn = "Validate", !.value = value]>>
    /\ ret = TRUE
    /\ panicking = FALSE
    /\ result = [kind |-> "none", errors |-> <<>>]
    /\ last = Event("none", BaseF)
    /\ equal = NoEqual

Next ==
    \/ Validate
    \/ ValidateReturn
    \/ ValidateJSON
    \/ ValidateJSONReturn
    \/ CallAddError
    \/ CallCheck
    \/ CallCheckIntMin
    \/ CallCheckIntMax
    \/ CallCheckIntMinMax
    \/ CallCheckInt64Min
    \/ CallCheckInt64Max
    \/ CallCheckInt64MinMax
    \/ CallCheckFloatMin
    \/ CallCheckFloatMax
    \/ CallCheckFloatMinMax
    \/ CallCheckStringMatch
    \/ CallCheckStringMatch2
    \/ CallCheckStringURI
    \/ CallCheckStringLengthMin
    \/ CallCheckStringLengthMax
    \/ CallCheckStringLengthMinMax
    \/ CallCheckStringNotEmpty
    \/ CallCheckStringValue
    \/ CallCheckUUID
    \/ CallCheckArrayLengthMin
    \/ CallCheckArrayLengthMax
    \/ CallCheckArrayLengthMinMax
    \/ CallCheckArrayNotEmpty
    \/ WithChild
    \/ WithChildReturn
    \/ CheckOptionalObject
    \/ CheckObject
    \/ CheckObjectReturn
    \/ doCheckObject
    \/ doCheckObjectPop
    \/ CheckObjectArray
    \/ CheckObjectArrayLoop
    \/ CheckObjectArrayAssign
    \/ CheckObjectArrayReturn
    \/ CheckObjectMap
    \/ CheckObjectMapLoop
    \/ CheckObjectMapAssign
    \/ CheckObjectMapReturn
    \/ UnwindWithChild
    \/ Unwind

Spec == Init /\ [][Next]_vars

(***************************************************************************)
(* Properties.  An exit of a call is the step that removes its frame:      *)
(* `last` then holds the frame, with the validator of the call's entry.    *)
(***************************************************************************)
Exited(fns) == last.how \in {"return", "unwind"} /\ last.f.fn \in fns
Returned(fns) == last.how = "return" /\ last.f.fn \in fns

\* the text of a token in a pointer
TokenText(token) == IF token.t = "int" THEN Itoa(token.n) ELSE token.s

\* the violations appended since the call of the frame f
Appended(f) == SubSeq(v.Errors, Len(f.entry.Errors) + 1, Len(v.Errors))

IsPrefix(s, u) == Len(s) <= Len(u) /\ SubSeq(u, 1, Len(s)) = s

\* C1: whenever a doCheckObject call exits, by returning or by unwinding,
\* the cursor is the cursor of its entry.  The code pops after the nested
\* ValidateJSON without defer, so an unwinding exit leaves the token pushed.
C1_DescentRestoresCursorOnEveryExit ==
    Exited({"doCheckObject"}) => v.Pointer = last.f.entry.Pointer

\* the frames of the closures WithChild runs
ClosureFns == {"func", "CheckObjectArray.func1", "CheckObjectMap.func1"}

\* C2: WithChild runs its body with the cursor at child(entry cursor, token),
\* and whenever a WithChild call exits, by returning or by unwinding, the
\* cursor is the cursor of its entry.
C2_WithChildRestoresCursorOnEveryExit ==
    /\ \A k \in 2..Len(stack) :
          stack[k].fn \in ClosureFns =>
             /\ stack[k - 1].fn = "WithChild"
             /\ stack[k].entry.Pointer =
                   stack[k - 1].entry.Pointer \o <<TokenText(stack[k - 1].token)>>
    /\ Exited({"WithChild"}) => v.Pointer = last.f.entry.Pointer

\* C3: Check returns its condition; a false condition appends exactly one
\* violation, at child(cursor, token) with the given code, a true one
\* appends nothing; the cursor and the earlier violations stay, and the
\* traversal goes on (no panic, the caller is running).
C3_CheckRecordsOneViolationIffFalse ==
    last.f.fn = "Check" =>
       /\ last.how = "return"
       /\ ~panicking /\ stack # <<>>
       /\ ret = last.f.op.cond
       /\ v.Pointer = last.f.entry.Pointer
       /\ v.Errors =
            IF last.f.op.cond THEN last.f.entry.Errors
            ELSE last.f.entry.Errors \o
                 <<[Pointer |-> last.f.entry.Pointer \o <<TokenText(last.f.token)>>,
                    Code |-> last.f.op.code]>>

\* a false Check below two descents, with violations recorded before it
C3_Witness ==
    /\ Returned({"Check"})
    /\ ~last.f.op.cond
    /\ Len(last.f.entry.Pointer) = 2
    /\ Len(last.f.entry.Errors) > 0
    /\ Len(v.Errors) = Len(last.f.entry.Errors) + 1

(***************************************************************************)
(* The violations a call is to record, by the structure of its arguments:  *)
(* depth first, the calls of a routine and the elements of a sequence from *)
(* left to right, the entries of a map in the order they are listed.       *)
(***************************************************************************)
RECURSIVE Concat(_)
Concat(ss) == IF ss = <<>> THEN <<>> ELSE Head(ss) \o Concat(Tail(ss))

IsNull(val) == val.kind \in {"nil", "nilptr"}

Missing(p) == [Pointer |-> p, Code |-> "missing_or_null_value"]

RECURSIVE ExpectedOfObject(_, _, _), ExpectedOfCall(_, _), ExpectedOfBody(_, _)

\* a nested object val checked with token text tok at cursor p
ExpectedOfObject(val, tok, p) ==
    IF IsNull(val) THEN <<Missing(p \o <<tok>>)>>
    ELSE ExpectedOfBody(val.body, p \o <<tok>>)

ExpectedOfCall(op, p) ==
    LET tok == TokenText(op.token)
    IN  CASE op.op = "WithChild" -> ExpectedOfBody(op.body, p \o <<tok>>)
          [] op.op = "CheckObject" -> ExpectedOfObject(op.value, tok, p)
          [] op.op = "CheckOptionalObject" ->
               IF IsNull(op.value) THEN <<>> ELSE ExpectedOfObject(op.value, tok, p)
          [] op.op = "CheckObjectArray" ->
               Concat([i \in 1..Len(op.value.elems) |->
                         ExpectedOfObject(op.value.elems[i], Itoa(i - 1), p \o <<tok>>)])
          [] op.op = "CheckObjectMap" ->
               Concat([i \in 1..Len(op.value.elems) |->
                         ExpectedOfObject(op.value.elems[i].elems[1],
                                          op.value.elems[i].key.s, p \o <<tok>>)])
          [] op.op = "AddError" -> <<[Pointer |-> p \o <<tok>>, Code |-> op.code]>>
          [] op.op = "Check" ->
               IF op.cond THEN <<>> ELSE <<[Pointer |-> p \o <<tok>>, Code |-> op.code]>>
          [] op.op = "CheckIntMax" ->
               IF op.i <= op.max THEN <<>>
               ELSE <<[Pointer |-> p \o <<tok>>, Code |-> "integer_too_large"]>>
          [] op.op = "CheckStringLengthMin" ->
               IF Len(op.s) >= op.min THEN <<>>
               ELSE <<[Pointer |-> p \o <<tok>>, Code |-> "string_too_short"]>>
          [] op.op = "CheckStringValue" ->
               IF \E i \in 1..Len(op.values.elems) : op.values.elems[i].s = op.value.s
               THEN <<>>
               ELSE <<[Pointer |-> p \o <<tok>>, Code |-> "invalid_value"]>>

ExpectedOfBody(body, p) ==
    Concat([i \in 1..Len(body) |-> ExpectedOfCall(body[i], p)])

\* the routines whose violations the operators above give: they make only
\* the calls listed there
RECURSIVE Covered(_)
Covered(body) ==
    \A i \in 1..Len(body) :
       /\ body[i].op \in {"WithChild", "CheckObject", "CheckOptionalObject",
                          "CheckObjectArray", "CheckObjectMap", "AddError", "Check",
                          "CheckIntMax", "CheckStringLengthMin", "CheckStringValue"}
       /\ Covered(body[i].body)
       /\ Covered(body[i].value.body)
       /\ \A j \in 1..Len(body[i].value.elems) :
             /\ Covered(body[i].value.elems[j].body)
             /\ \A k \in 1..Len(body[i].value.elems[j].elems) :
                   Covered(body[i].value.elems[j].elems[k].body)

\* no map of the routine has two entries or more: one order of discovery
RECURSIVE OneOrder(_)
OneOrder(body) ==
    \A i \in 1..Len(body) :
       /\ body[i].value.kind = "map" => Len(body[i].value.elems) <= 1
       /\ OneOrder(body[i].body)
       /\ OneOrder(body[i].value.body)
       /\ \A j \in 1..Len(body[i].value.elems) :
             /\ OneOrder(body[i].value.elems[j].body)
             /\ \A k \in 1..Len(body[i].value.elems[j].elems) :
                   OneOrder(body[i].value.elems[j].elems[k].body)

\* the tokens pushed by the descents that are under way, outermost first
RECURSIVE DescentTokens(_)
DescentTokens(st) ==
    IF st = <<>> THEN <<>>
    ELSE (IF \/ Head(st).fn = "WithChild" /\ Head(st).pc = "defer"
             \/ Head(st).fn = "doCheckObject" /\ Head(st).pc = "pop"
          THEN <<TokenText(Head(st).token)>> ELSE <<>>)
         \o DescentTokens(Tail(st))

\* C4: the pointer of a violation is the path of the descents under way at
\* the failing check followed by the check's token, not the cursor at which
\* an outer routine started; the nested violations of the test are at
\* /Bars/0, /Bars/1/Integers/0, /Bars/2/Integers/1, /BarTable/foo/Integers/0.
C4_PointerIsCursorAtTheFailingCheck ==
    /\ (last.how = "return" /\ last.f.pc = "start"
        /\ last.f.fn \notin ClosureFns \cup {"ValidateJSON", "Validate"}
        /\ Len(v.Errors) > Len(last.f.entry.Errors)) =>
          /\ Len(v.Errors) = Len(last.f.entry.Errors) + 1
          /\ v.Errors[Len(v.Errors)].Pointer =
                DescentTokens(stack) \o <<TokenText(last.f.token)>>
    /\ (value = NestedViolationsData /\ result.kind = "error") =>
          result.errors =
             <<[Pointer |-> <<"Bars", "0">>, Code |-> "missing_or_null_value"],
               [Pointer |-> <<"Bars", "1", "Integers", "0">>, Code |-> "integer_too_large"],
               [Pointer |-> <<"Bars", "2", "Integers", "1">>, Code |-> "integer_too_large"],
               [Pointer |-> <<"BarTable", "foo", "Integers", "0">>,
                Code |-> "integer_too_large"]>>

\* the too-large integer at index 0 of Integers in Bars[1] has just been recorded
C4_Witness ==
    /\ value = NestedViolationsData
    /\ Returned({"CheckIntMax"})
    /\ Len(v.Errors) = 2
    /\ v.Errors[2].Pointer = <<"Bars", "1", "Integers", "0">>
    /\ v.Pointer = <<"Bars", "1", "Integers">>

\* the violations of a finished run are those of the root's routine, depth
\* first and left to right
DiscoveryOrder ==
    (result.kind = "error" /\ Covered(value.body) /\ OneOrder(value.body)) =>
       result.errors = ExpectedOfBody(value.body, <<>>)

\* C5: the violation list is append-only (every step leaves the list it
\* found as a prefix of the list it leaves), and the violations of a run
\* are in discovery order: depth first, left to right.
C5_ViolationsAppendOnlyInDiscoveryOrder ==
    [][IsPrefix(v.Errors, v.Errors')]_vars /\ []DiscoveryOrder

\* the nested-violations run has ended: /Bars/0 (missing) is before
\* /Bars/1/Integers/0 (too large), and cursor movements came in between
C5_Witness ==
    /\ value = NestedViolationsData
    /\ result.kind = "error"
    /\ Len(result.errors) = 4
    /\ result.errors[1] = Missing(<<"Bars", "0">>)
    /\ result.errors[2].Pointer = <<"Bars", "1", "Integers", "0">>

\* how often e occurs in s
Count(s, e) == Cardinality({k \in 1..Len(s) : s[k] = e})

SameMultiset(s, u) ==
    /\ Len(s) = Len(u)
    /\ \A k \in 1..Len(s) : Count(s, s[k]) = Count(u, s[k])

\* the positions of s whose pointer starts with p
Under(s, p) == {k \in 1..Len(s) : IsPrefix(p, s[k].Pointer)}

C8_ObjectMapVisitsEveryEntryOnce ==
    /\ Returned({"CheckObjectMap.func1"}) =>
          last.f.rest = {} /\ last.f.i = Len(last.f.value.elems)
    /\ Returned({"CheckObjectMap"}) =>
          LET entries == last.f.value.elems
              base == last.f.entry.Pointer \o <<TokenText(last.f.token)>>
              new == Appended(last.f)
              at(i) == base \o <<entries[i].key.s>>
          IN  /\ \A i \in 1..Len(entries) :
                    IsNull(entries[i].elems[1]) =>
                       /\ Cardinality(Under(new, at(i))) = 1
                       /\ \A k \in Under(new, at(i)) : new[k] = Missing(at(i))
              /\ \A k \in 1..Len(new) : \E i \in 1..Len(entries) : k \in Under(new, at(i))
              /\ Covered(<<last.f.op>>) =>
                    SameMultiset(new,
                       Concat([i \in 1..Len(entries) |->
                                 ExpectedOfObject(entries[i].elems[1],
                                                  entries[i].key.s, base)]))

\* CheckObjectMap has returned on a map of three entries, its violations in
\* another order than the entries are listed in
C8_Witness ==
    /\ Returned({"CheckObjectMap"})
    /\ Len(last.f.value.elems) = 3
    /\ Len(Appended(last.f)) = 3
    /\ Appended(last.f) #
          Concat([i \in 1..3 |->
                    ExpectedOfObject(last.f.value.elems[i].elems[1],
                                     last.f.value.elems[i].key.s,
                                     last.f.entry.Pointer \o <<TokenText(last.f.token)>>)])

\* C9: Validate runs the root's routine, if it has one, on a fresh
\* Validator (root cursor, no violation); it returns nil for a value with
\* no routine, and otherwise an error if and only if a violation was
\* recorded, the error being the whole list in order.
C9_ValidateReturnsAllViolations ==
    /\ (Len(stack) >= 2 /\ stack[1].fn = "Validate") =>
          /\ IsValidatable(value)
          /\ stack[2].fn = "ValidateJSON"
          /\ stack[2].body = value.body
          /\ stack[2].entry = [Pointer |-> <<>>, Errors |-> <<>>]
    /\ result.kind \in {"nil", "error"} =>
          /\ ~IsValidatable(value) => result.kind = "nil" /\ v.Errors = <<>>
          /\ result.kind = "error" <=> Len(v.Errors) >= 1
          /\ result.errors = v.Errors
          /\ DiscoveryOrder
    /\ stack = <<>> => result.kind # "none"

\* Validate has returned the two violations of the null-objects data
C9_Witness ==
    /\ value = NullObjectsData
    /\ stack = <<>>
    /\ result.kind = "error"
    /\ result.errors = v.Errors
    /\ Len(result.errors) = 2

\* the checks that take an untyped value
ArrayChecks ==
    {"CheckArrayLengthMin", "CheckArrayLengthMax", "CheckArrayLengthMinMax",
     "CheckArrayNotEmpty"}

UntypedChecks ==
    ArrayChecks \cup {"CheckStringValue", "CheckObject", "CheckOptionalObject",
                      "CheckObjectArray", "CheckObjectMap", "CheckUUID"}

\* the call of frame f is given a value of a shape its check does not support
WrongShape(f) ==
    CASE f.fn \in ArrayChecks \cup {"CheckObjectArray"} -> f.value.kind # "slice"
      [] f.fn = "CheckStringValue" -> f.value.kind # "string"
      [] f.fn \in {"CheckObject", "CheckOptionalObject"} ->
           f.value.kind \notin {"nil", "nilptr", "struct", "obj"}
      [] f.fn = "CheckObjectMap" -> f.value.kind # "map" \/ f.value.keyKind # "string"
      [] f.fn = "CheckUUID" -> f.value.kind \notin {"string", "uuid"}
      [] OTHER -> FALSE

\* C10: a check that takes an untyped value, called with a value of a shape
\* it does not support, panics and appends no violation: such a call never
\* returns, and when it has unwound the list is the list of its entry.
\* CheckUUID has no default case in its type switch and records
\* missing_or_null_uuid instead; CheckObjectMap looks at the key kind only
\* inside the loop, so an empty map with other keys returns true.
C10_WrongShapePanicsWithoutViolation ==
    (Exited(UntypedChecks) /\ WrongShape(last.f)) =>
       /\ last.how = "unwind"
       /\ v.Errors = last.f.entry.Errors

\* the keys of an object
KeysOf(obj) == {obj.members[i].key : i \in 1..Len(obj.members)}

\* deep structural equality over the Value model: the same tag and equal
\* content
RECURSIVE Same(_, _)
Same(x1, x2) ==
    /\ x1.tag = x2.tag
    /\ CASE x1.tag = "null" -> TRUE
         [] x1.tag = "bool" -> x1.b = x2.b
         [] x1.tag = "number" -> x1.n = x2.n
         [] x1.tag = "string" -> x1.s = x2.s
         [] x1.tag = "array" ->
              /\ Len(x1.elems) = Len(x2.elems)
              /\ \A i \in 1..Len(x1.elems) : Same(x1.elems[i], x2.elems[i])
         [] x1.tag = "object" ->
              /\ KeysOf(x1) = KeysOf(x2)
              /\ \A k \in KeysOf(x1) : Same(Lookup(x1, k), Lookup(x2, k))

\* C11: Equal is deep structural equality over Null, Bool, Number, String,
\* Array and Object: true exactly for the same tag and equal content, hence
\* reflexive and symmetric, null and the arrays and objects that hold null
\* included.  Equal has no case for nil: Equal(nil, nil) is false.
C11_EqualIsStructuralEquality ==
    equal.done =>
       /\ equal.ret = Same(equal.v1, equal.v2)
       /\ equal.v1 = equal.v2 => equal.ret
       /\ equal.ret = equal.back

MissingValue(p) == [Pointer |-> p, Code |-> "missing_value"]

\* C12: a null element at index i of a sequence of nested objects checked
\* with CheckObjectArray is reported as one violation at <field>/<i> whose
\* code is missing_value; Bars = [X, null, Y, null] gives /Bars/1 and
\* /Bars/3, both coded missing_value.  CheckObject codes the violation
\* missing_or_null_value.
C12_NullElementIsCodedMissingValue ==
    /\ ( /\ Returned({"CheckObject"})
         /\ IsNull(last.f.value)
         /\ stack # <<>>
         /\ Top.fn = "CheckObjectArray.func1" )
       => Appended(last.f) =
             <<MissingValue(last.f.entry.Pointer \o <<Itoa(Top.i)>>)>>
    /\ (value = NullObjectsData /\ stack = <<>> /\ result.kind = "error")
       => result.errors = <<MissingValue(<<"Bars", "1">>),
                            MissingValue(<<"Bars", "3">>)>>

\* the checks that return a bool
MinMaxChecks ==
    {"CheckIntMinMax", "CheckInt64MinMax", "CheckFloatMinMax",
     "CheckStringLengthMinMax", "CheckArrayLengthMinMax"}

BoolChecks ==
    MinMaxChecks \cup ArrayChecks
    \cup {"Check", "CheckIntMin", "CheckIntMax", "CheckInt64Min", "CheckInt64Max",
          "CheckFloatMin", "CheckFloatMax", "CheckStringLengthMin",
          "CheckStringLengthMax", "CheckStringNotEmpty", "CheckStringValue",
          "CheckStringMatch", "CheckStringMatch2", "CheckStringURI", "CheckUUID",
          "CheckOptionalObject", "CheckObject", "CheckObjectArray",
          "CheckObjectMap"}

\* C13: a call of a bool-returning check that returns normally returns false
\* if and only if it appended at least one violation during the call, those
\* of the nested routines included; a MinMax check appends at most one
\* violation per call, the maximum check being skipped once the minimum
\* check failed.
C13_FalseIffViolationAppended ==
    Returned(BoolChecks) =>
       /\ IsPrefix(last.f.entry.Errors, v.Errors)
       /\ (ret = FALSE) <=> (Len(Appended(last.f)) >= 1)
       /\ last.f.fn \in MinMaxChecks => Len(Appended(last.f)) <= 1

\* a CheckIntMinMax whose value is below the minimum and above the maximum
\* has returned false with one violation, after violations recorded before
C13_Witness ==
    /\ Returned({"CheckIntMinMax"})
    /\ last.f.op.i < last.f.op.min
    /\ last.f.op.i > last.f.op.max
    /\ ~ret
    /\ Len(last.f.entry.Errors) > 0
    /\ Len(Appended(last.f)) = 1

====
